---- MODULE Spec2Model ----
(***************************************************************************)
(* The DataExtractor component: a form whose submit handler, handleExtract,*)
(* posts { urls: [url], prompt } to a webhook and, in the polling revision,*)
(* follows an extract_id with status checks until the job is terminal.     *)
(*                                                                         *)
(* The repository holds two revisions of the component.  "polling" is the  *)
(* one with pollJobStatus / waitForCompletion (src/unnamed/part_000, lines *)
(* 288-705); "basic" is the one that displays the body of the submit       *)
(* response as it is (src/src/components/DataExtractor.tsx, and the same   *)
(* handler in src/unnamed/part_000, lines 1-286).                          *)
(*                                                                         *)
(* An invocation of the async handler is a process: it runs atomically     *)
(* from one await to the next.  procs["cur"] is the invocation started     *)
(* last, procs["old"] an earlier one that is still in flight.  The handler *)
(* never reads isLoading, extractedData, error or jobStatus, it only       *)
(* writes them.                                                            *)
(***************************************************************************)
EXTENDS Integers, Sequences, FiniteSets, TLC

VARIABLES
    revision,       \* which revision of the component is mounted
    isLoading,      \* useState(false)
    extractedData,  \* useState(null)
    error,          \* useState('')
    jobStatus,      \* useState('')   (polling revision only)
    toast,          \* title of the toast shown last
    procs,          \* the invocations of handleExtract in flight
    call,           \* the url and prompt the handler was invoked with last;
                    \* tick flips at every invocation
    obs             \* what the invocation procs["cur"] did and received

vars == <<revision, isLoading, extractedData, error, jobStatus, toast, procs, call, obs>>

(***************************************************************************)
(* Bounds                                                                  *)
(***************************************************************************)
\* status checks one invocation may issue
MaxPolls == 3

(***************************************************************************)
(* Values                                                                  *)
(***************************************************************************)
Revisions == {"basic", "polling"}

\* A url is the text of the input field, kept as its scheme (the part before
\* the first ":", empty when there is none) and the rest.
EmptyUrl == [scheme |-> "", rest |-> ""]
Urls ==
    { EmptyUrl,
      [scheme |-> "", rest |-> "example.com"],
      [scheme |-> "https", rest |-> ""],
      [scheme |-> "https", rest |-> "a.example"] }

Prompts == {"", "Get article titles and authors"}

\* JSON values a response may carry in data; "undefined" is an absent field.
Falsy == {"undefined", "null", "false", "0", "emptystring"}
Data == {"undefined", "null", "false", "0", "emptystring", "X"}

\* extract_id: absent, the empty string, or a job id.
Ids == {"undefined", "emptystring", "job-1"}

\* "queued" stands for a value the interface does not list, "undefined" for a
\* body without a status field.
Statuses == {"processing", "completed", "failed", "cancelled", "queued", "undefined"}

\* The parsed body of a response of the webhook (interface ExtractResponse).
Responses == [success : BOOLEAN, status : Statuses, data : Data, extract_id : Ids]

NoResponse == [success |-> FALSE, status |-> "none", data |-> "undefined", extract_id |-> "undefined"]

\* How a fetch ends: a parsed 2xx body, a non-2xx status, a rejected fetch,
\* or a 2xx body that response.json() cannot parse.
Outcomes == {"ok", "http", "network", "json"}

(***************************************************************************)
(* JavaScript values and the pure helpers of the handler                   *)
(***************************************************************************)
\* A value held in extractedData: a JSON value taken from a data field, or a
\* whole response object.
JValue(d) == [k |-> "value", v |-> d, r |-> NoResponse]
JObject(resp) == [k |-> "object", v |-> "undefined", r |-> resp]
JNull == JValue("null")
NoValue == [k |-> "none", v |-> "undefined", r |-> NoResponse]

\* JavaScript truthiness of a JSON value, of an extract_id and of a held value.
TruthyData(d) == d \notin Falsy
TruthyId(id) == id \notin {"undefined", "emptystring"}
Truthy(j) == j.k = "object" \/ (j.k = "value" /\ TruthyData(j.v))

\* JSON.stringify(value, null, 2): the text of a JSON value; undefined has no
\* text.  The text of an object is kept as the object, pretty-printed.
NoText == [k |-> "nothing", t |-> "", r |-> NoResponse]
JsonText(j) ==
    IF j.k = "object" THEN [k |-> "text", t |-> "{...}", r |-> j.r]
    ELSE CASE j.v = "null" -> [k |-> "text", t |-> "null", r |-> NoResponse]
           [] j.v = "false" -> [k |-> "text", t |-> "false", r |-> NoResponse]
           [] j.v = "0" -> [k |-> "text", t |-> "0", r |-> NoResponse]
           [] j.v = "emptystring" -> [k |-> "text", t |-> "\"\"", r |-> NoResponse]
           [] j.v = "X" -> [k |-> "text", t |-> "\"X\"", r |-> NoResponse]
           [] OTHER -> NoText

\* !url : the empty string is the only falsy string.
EmptyString(u) == u.scheme = "" /\ u.rest = ""

\* new URL(url) without a base: it throws unless the text has a scheme, and
\* for a special scheme (https) unless a host follows it.
SpecialSchemes == {"http", "https", "ws", "wss", "ftp"}
UrlParses(u) ==
    /\ u.scheme # ""
    /\ (u.scheme \in SpecialSchemes => u.rest # "")

\* Validate that accepts an empty prompt.
ValidateIgnoresPrompt(u, p) ==
    IF EmptyString(u) THEN "Missing Information"
    ELSE IF ~UrlParses(u) THEN "Invalid URL"
    ELSE ""

\* Validate without the new URL(url) check.
ValidateSkipsUrlParse(u, p) ==
    IF EmptyString(u) \/ p = "" THEN "Missing Information" ELSE ""

\* The early returns of handleExtract: the toast it shows, "" when it goes on.
Validate(u, p) ==
    IF EmptyString(u) \/ p = "" THEN "Missing Information"
    ELSE IF ~UrlParses(u) THEN "Invalid URL"
    ELSE ""

\* SubmitBody that leaves the prompt out.
SubmitBodyNoPrompt(u, p) ==
    [urls |-> <<u>>, prompt |-> "undefined", action |-> "undefined", extract_id |-> "undefined"]

\* StatusBody that leaves the job id out.
StatusBodyDropsId(id) ==
    [urls |-> <<>>, prompt |-> "undefined", action |-> "status_check", extract_id |-> "undefined"]

\* The two request bodies; a field a body does not have is "undefined" (<<>>).
SubmitBody(u, p) ==
    [urls |-> <<u>>, prompt |-> p, action |-> "undefined", extract_id |-> "undefined"]
StatusBody(id) ==
    [urls |-> <<>>, prompt |-> "undefined", action |-> "status_check", extract_id |-> id]

\* The message of the Error a fetch that did not end "ok" raises.
TransportMessage(o) ==
    CASE o = "http" -> "HTTP error! status: 500"
      [] o = "network" -> "Failed to fetch"
      [] o = "json" -> "Unexpected end of JSON input"

\* setError(`Failed to extract data: ${errorMessage}`)
ErrorText(msg) ==
    CASE msg = "HTTP error! status: 500" -> "Failed to extract data: HTTP error! status: 500"
      [] msg = "Failed to fetch" -> "Failed to extract data: Failed to fetch"
      [] msg = "Unexpected end of JSON input" -> "Failed to extract data: Unexpected end of JSON input"
      [] msg = "Failed to start extraction job" -> "Failed to extract data: Failed to start extraction job"
      [] msg = "Extraction job failed" -> "Failed to extract data: Extraction job failed"
      [] msg = "Extraction job was cancelled" -> "Failed to extract data: Extraction job was cancelled"
      [] OTHER -> "Failed to extract data: Unknown error occurred"

\* InitialVerdict that looks at extract_id before it looks at the status.
InitialVerdictIdFirst(resp) ==
    IF ~resp.success THEN "throw"
    ELSE IF TruthyId(resp.extract_id) THEN "poll"
    ELSE IF resp.status = "completed" THEN "completed"
    ELSE "fallback"

\* What handleExtract does with the parsed body of the submit response.
InitialVerdict(resp) ==
    IF ~resp.success THEN "throw"
    ELSE IF resp.status = "completed" THEN "completed"
    ELSE IF TruthyId(resp.extract_id) THEN "poll"
    ELSE "fallback"

\* FallbackPayload without the "|| initialResponse".
FallbackPayloadDataOnly(resp) == JValue(resp.data)

\* initialResponse.data || initialResponse
FallbackPayload(resp) ==
    IF TruthyData(resp.data) THEN JValue(resp.data) ELSE JObject(resp)

\* PollVerdict that does not recognise "completed".
PollVerdictMissesCompleted(status) ==
    CASE status = "failed" -> "Extraction job failed"
      [] status = "cancelled" -> "Extraction job was cancelled"
      [] OTHER -> "wait"

\* PollVerdict that goes on polling a failed or cancelled job.
PollVerdictIgnoresFailure(status) ==
    CASE status = "completed" -> "return"
      [] OTHER -> "wait"

\* PollVerdict that polls on for "processing" only and throws for a status it
\* does not know.
PollVerdictRejectsUnknown(status) ==
    CASE status = "completed" -> "return"
      [] status = "failed" -> "Extraction job failed"
      [] status = "cancelled" -> "Extraction job was cancelled"
      [] status = "processing" -> "wait"
      [] OTHER -> "Unknown job status"

\* What waitForCompletion does with the status of a status-check response.
PollVerdict(status) ==
    CASE status = "completed" -> "return"
      [] status = "failed" -> "Extraction job failed"
      [] status = "cancelled" -> "Extraction job was cancelled"
      [] OTHER -> "wait"

\* PollStep that swallows a transport failure and polls again.
PollStepRetriesTransport(o, status) ==
    IF o # "ok" THEN "wait" ELSE PollVerdict(status)

\* One turn of the loop of waitForCompletion, for a status check that ended
\* with outcome o and (when "ok") a body with this status: "return", "wait",
\* or the message of the Error the loop throws.
PollStep(o, status) ==
    IF o # "ok" THEN TransportMessage(o) ELSE PollVerdict(status)

(***************************************************************************)
(* Invocations of handleExtract                                            *)
(***************************************************************************)
Slots == {"cur", "old"}

\* pc "none": no invocation; "submitFetch": awaiting the submit fetch;
\* "pollFetch": awaiting a status-check fetch; "pollWait": awaiting the
\* 2-second timer; "pollReturned" / "pollThrew": waitForCompletion has
\* settled and handleExtract has not resumed yet.
Idle ==
    [pc |-> "none", url |-> EmptyUrl, prompt |-> "", extractId |-> "undefined",
     polls |-> 0, ret |-> "undefined", thrown |-> ""]

NoObs ==
    [phase |-> "none", url |-> EmptyUrl, prompt |-> "", reqs |-> <<>>,
     first |-> "", initial |-> NoResponse, statuses |-> <<>>, pollEnd |-> "",
     completedData |-> "undefined", stored |-> NoValue, err |-> ""]

Init ==
    /\ revision \in Revisions
    /\ isLoading = FALSE
    /\ extractedData = JNull
    /\ error = ""
    /\ jobStatus = ""
    /\ toast = ""
    /\ procs = [s \in Slots |-> Idle]
    /\ call = [url |-> EmptyUrl, prompt |-> "", tick |-> FALSE]
    /\ obs = NoObs

\* handleExtract that leaves the error of the previous attempt in place.
handleExtractKeepsError(u, p) ==
    /\ call' = [url |-> u, prompt |-> p, tick |-> ~call.tick]
    /\ IF Validate(u, p) # ""
       THEN /\ toast' = Validate(u, p)
            /\ UNCHANGED <<revision, isLoading, extractedData, error, jobStatus, procs, obs>>
       ELSE /\ procs["cur"].pc = "none" \/ procs["old"].pc = "none"
            /\ isLoading' = TRUE
            /\ extractedData' = JNull
            /\ jobStatus' = ""
            /\ procs' = [cur |-> [Idle EXCEPT !.pc = "submitFetch", !.url = u, !.prompt = p],
                         old |-> IF procs["cur"].pc # "none" THEN procs["cur"] ELSE procs["old"]]
            /\ obs' = [NoObs EXCEPT !.phase = "running", !.url = u, !.prompt = p,
                                    !.reqs = <<SubmitBody(u, p)>>]
            /\ UNCHANGED <<revision, toast, error>>

\* handleExtract, from the submit event to its first await (or early return).
handleExtract(u, p) ==
    /\ call' = [url |-> u, prompt |-> p, tick |-> ~call.tick]
    /\ IF Validate(u, p) # ""
       THEN /\ toast' = Validate(u, p)
            /\ UNCHANGED <<revision, isLoading, extractedData, error, jobStatus, procs, obs>>
       ELSE /\ procs["cur"].pc = "none" \/ procs["old"].pc = "none"
            /\ isLoading' = TRUE
            /\ error' = ""
            /\ extractedData' = JNull
            /\ jobStatus' = ""
            /\ procs' = [cur |-> [Idle EXCEPT !.pc = "submitFetch", !.url = u, !.prompt = p],
                         old |-> IF procs["cur"].pc # "none" THEN procs["cur"] ELSE procs["old"]]
            /\ obs' = [NoObs EXCEPT !.phase = "running", !.url = u, !.prompt = p,
                                    !.reqs = <<SubmitBody(u, p)>>]
            /\ UNCHANGED <<revision, toast>>

\* Succeed without the finally block.
SucceedWithoutFinally(s, j) ==
    /\ extractedData' = j
    /\ toast' = "Extraction Complete"
    /\ procs' = [procs EXCEPT ![s] = Idle]
    /\ UNCHANGED <<revision, error, call, isLoading, jobStatus>>

\* The try block ends normally in invocation s: setExtractedData(j), the
\* "Extraction Complete" toast, then the finally block.
Succeed(s, j) ==
    /\ extractedData' = j
    /\ toast' = "Extraction Complete"
    /\ isLoading' = FALSE
    /\ jobStatus' = ""
    /\ procs' = [procs EXCEPT ![s] = Idle]
    /\ UNCHANGED <<revision, error, call>>

\* The catch block of invocation s for an Error with message msg, then the
\* finally block.
Fail(s, msg) ==
    /\ error' = ErrorText(msg)
    /\ toast' = "Extraction Failed"
    /\ isLoading' = FALSE
    /\ jobStatus' = ""
    /\ procs' = [procs EXCEPT ![s] = Idle]
    /\ UNCHANGED <<revision, extractedData, call>>

\* The record of what procs["cur"] did; invocation "old" is not recorded.
Observe(s, new) == obs' = IF s = "cur" THEN new ELSE obs

\* Polling revision: the submit fetch of invocation s ends with outcome o and,
\* when "ok", the parsed body resp; handleExtract runs on to its next await or
\* to its end.
SubmitResponse(s, o, resp) ==
    /\ revision = "polling"
    /\ procs[s].pc = "submitFetch"
    /\ IF o # "ok"
       THEN /\ Fail(s, TransportMessage(o))
            /\ Observe(s, [obs EXCEPT !.phase = "ended", !.first = o,
                                      !.err = ErrorText(TransportMessage(o))])
       ELSE CASE InitialVerdict(resp) = "throw" ->
                 /\ Fail(s, "Failed to start extraction job")
                 /\ Observe(s, [obs EXCEPT !.phase = "ended", !.first = o, !.initial = resp,
                                           !.err = ErrorText("Failed to start extraction job")])
              [] InitialVerdict(resp) = "completed" ->
                 /\ Succeed(s, JValue(resp.data))
                 /\ Observe(s, [obs EXCEPT !.phase = "ended", !.first = o, !.initial = resp,
                                           !.stored = JValue(resp.data)])
              [] InitialVerdict(resp) = "poll" ->
                 \* waitForCompletion runs to its first await: the fetch of
                 \* pollJobStatus is issued in this step.  The handler never
                 \* reads the data of this response; the record leaves it out.
                 /\ procs' = [procs EXCEPT ![s].pc = "pollFetch",
                                           ![s].extractId = resp.extract_id,
                                           ![s].polls = 1]
                 /\ Observe(s, [obs EXCEPT !.first = o,
                                           !.initial = [resp EXCEPT !.data = "undefined"],
                                           !.reqs = Append(@, StatusBody(resp.extract_id))])
                 /\ UNCHANGED <<revision, isLoading, extractedData, error, jobStatus, toast, call>>
              [] OTHER ->
                 /\ Succeed(s, FallbackPayload(resp))
                 /\ Observe(s, [obs EXCEPT !.phase = "ended", !.first = o, !.initial = resp,
                                           !.stored = FallbackPayload(resp)])

\* Basic revision: the body of a 2xx response is displayed as it is.
SubmitResponseBasic(s, o, resp) ==
    /\ revision = "basic"
    /\ procs[s].pc = "submitFetch"
    /\ IF o # "ok"
       THEN /\ Fail(s, TransportMessage(o))
            /\ Observe(s, [obs EXCEPT !.phase = "ended", !.first = o,
                                      !.err = ErrorText(TransportMessage(o))])
       ELSE /\ Succeed(s, JObject(resp))
            /\ Observe(s, [obs EXCEPT !.phase = "ended", !.first = o, !.initial = resp,
                                      !.stored = JObject(resp)])

\* A status-check fetch of invocation s ends: pollJobStatus returns or throws,
\* and waitForCompletion returns, throws, or starts the 2-second timer.
PollResponse(s, o, resp) ==
    /\ procs[s].pc = "pollFetch"
    /\ jobStatus' = IF o = "ok" THEN resp.status ELSE jobStatus
    /\ Observe(s, IF o = "ok"
                  THEN [obs EXCEPT !.pollEnd = o,
                                   !.statuses = Append(@, resp.status),
                                   !.completedData =
                                       IF resp.status = "completed" THEN resp.data ELSE @]
                  ELSE [obs EXCEPT !.pollEnd = o])
    /\ procs' =
         CASE PollStep(o, resp.status) = "return" ->
                [procs EXCEPT ![s].pc = "pollReturned", ![s].ret = resp.data]
           [] PollStep(o, resp.status) = "wait" ->
                [procs EXCEPT ![s].pc = "pollWait"]
           [] OTHER ->
                [procs EXCEPT ![s].pc = "pollThrew",
                              ![s].thrown = PollStep(o, resp.status)]
    /\ UNCHANGED <<revision, isLoading, extractedData, error, toast, call>>

\* The 2-second timer of invocation s fires: the loop issues the next
\* status check.
TimerFires(s) ==
    /\ procs[s].pc = "pollWait"
    /\ procs[s].polls < MaxPolls
    /\ procs' = [procs EXCEPT ![s].pc = "pollFetch", ![s].polls = @ + 1]
    /\ Observe(s, [obs EXCEPT !.pollEnd = "", !.reqs = Append(@, StatusBody(procs[s].extractId))])
    /\ UNCHANGED <<revision, isLoading, extractedData, error, jobStatus, toast, call>>

\* A handleExtract that resumes only when waitForCompletion returns: an Error
\* thrown by the loop is never caught and the invocation never ends.
handleExtractResumeOnReturnOnly(s) ==
    /\ procs[s].pc = "pollReturned"
    /\ Succeed(s, JValue(procs[s].ret))
    /\ Observe(s, [obs EXCEPT !.phase = "ended", !.stored = JValue(procs[s].ret)])

\* handleExtract resumes after await waitForCompletion(...): with the data
\* returned, or in its catch block with the Error thrown.
handleExtractResume(s) ==
    /\ procs[s].pc \in {"pollReturned", "pollThrew"}
    /\ IF procs[s].pc = "pollReturned"
       THEN /\ Succeed(s, JValue(procs[s].ret))
            /\ Observe(s, [obs EXCEPT !.phase = "ended", !.stored = JValue(procs[s].ret)])
       ELSE /\ Fail(s, procs[s].thrown)
            /\ Observe(s, [obs EXCEPT !.phase = "ended", !.err = ErrorText(procs[s].thrown)])

\* Bodies of status-check responses: the loop reads status and data only.
PollResponses == {resp \in Responses : resp.success /\ resp.extract_id = "undefined"}

\* A form that accepts a submit in any state.
OneAtATimeNever(u, p) == TRUE

\* Spec runs one invocation at a time: the fields and the submit button are
\* disabled while isLoading, so the form is submitted only when no attempt is
\* loading.  (The button is disabled for an empty field as well; the handler
\* checks the fields itself and is modelled for empty ones too.)  The handler
\* reads none of the state another invocation writes, so what one invocation
\* does is the same with or without another one in flight.
OneAtATime(u, p) == ~isLoading

\* <form onSubmit={handleExtract}>: a submit event with url u and prompt p in
\* the two fields.
onSubmit(u, p) == OneAtATime(u, p) /\ handleExtract(u, p)

Next ==
    \/ \E u \in Urls, p \in Prompts : onSubmit(u, p)
    \/ \E s \in Slots, o \in Outcomes, resp \in Responses : SubmitResponse(s, o, resp)
    \/ \E s \in Slots, o \in Outcomes, resp \in Responses : SubmitResponseBasic(s, o, resp)
    \/ \E s \in Slots, o \in Outcomes, resp \in PollResponses : PollResponse(s, o, resp)
    \/ \E s \in Slots : TimerFires(s)
    \/ \E s \in Slots : handleExtractResume(s)

Spec == Init /\ [][Next]_vars

TypeOK ==
    /\ revision \in Revisions
    /\ isLoading \in BOOLEAN
    /\ jobStatus \in Statuses \cup {""}
    /\ \A s \in Slots : procs[s].polls \in 0..MaxPolls

\* The event loop runs what is ready: a timer that was set fires, and a
\* handleExtract whose await has settled resumes.  Nothing makes the server
\* answer a request.
Fairness == \A s \in Slots : WF_vars(TimerFires(s)) /\ WF_vars(handleExtractResume(s))

SpecFair == Spec /\ Fairness

(***************************************************************************)
(* Properties                                                              *)
(***************************************************************************)
cur == procs["cur"]

TerminalStatuses == {"completed", "failed", "cancelled"}

\* The status-check body the spec describes for job id.
ExpectedStatusCheck(id) ==
    [urls |-> <<>>, prompt |-> "undefined", action |-> "status_check", extract_id |-> id]

\* The submit body the spec describes for url u and prompt p.
ExpectedSubmit(u, p) ==
    [urls |-> <<u>>, prompt |-> p, action |-> "undefined", extract_id |-> "undefined"]

\* Number of status-check requests the recorded invocation has issued.
StatusChecks == Cardinality({i \in 1..Len(obs.reqs) : obs.reqs[i].action = "status_check"})

LastStatus == obs.statuses[Len(obs.statuses)]

\* C1: a submit whose url is empty, whose prompt is empty or whose url does
\* not parse as an absolute URL is rejected with a validation toast, and no
\* request is issued: no fetch becomes pending and nothing is sent.
C1_InvalidSubmitRejected ==
    [][ ( /\ call'.tick # call.tick
          /\ \/ EmptyString(call'.url)
             \/ call'.prompt = ""
             \/ ~UrlParses(call'.url) )
        => /\ toast' \in {"Missing Information", "Invalid URL"}
           /\ UNCHANGED <<procs, obs, isLoading, extractedData, error, jobStatus>> ]_vars

\* C1 witness: a malformed url with a prompt was submitted and rejected, and
\* no request was ever sent.
C1_Witness ==
    /\ toast = "Invalid URL"
    /\ ~EmptyString(call.url) /\ ~UrlParses(call.url) /\ call.prompt # ""
    /\ obs.reqs = <<>>
    /\ \A s \in Slots : procs[s].pc = "none"

\* C2 as stated: every submit response with status completed, whatever its
\* success flag, ends the attempt with its data as the result and without a
\* status check.
C2_AnyCompletedReturnsData ==
    (revision = "polling" /\ obs.first = "ok" /\ obs.initial.status = "completed")
    => /\ obs.phase = "ended"
       /\ extractedData = JValue(obs.initial.data)
       /\ error = ""
       /\ StatusChecks = 0

\* C2 amended: a submit response with success = true and status completed
\* ends the attempt with its data as the result and without a status check,
\* whether or not it carries an extract_id.
C2_CompletedAtOnce ==
    ( /\ revision = "polling" /\ obs.first = "ok"
      /\ obs.initial.success /\ obs.initial.status = "completed" )
    => /\ obs.phase = "ended"
       /\ cur.pc = "none"
       /\ extractedData = JValue(obs.initial.data)
       /\ error = ""
       /\ StatusChecks = 0
       /\ Len(obs.reqs) = 1

\* C2 witness: a completed submit response that carries a job id; its data is
\* the result and only the submit request was sent.
C2_Witness ==
    /\ revision = "polling" /\ obs.first = "ok"
    /\ obs.initial.success /\ obs.initial.status = "completed"
    /\ TruthyId(obs.initial.extract_id)
    /\ obs.initial.data = "X"
    /\ extractedData = JValue("X")
    /\ Len(obs.reqs) = 1

\* The status checks answered so far all said processing, but for the last.
ProcessingBeforeLast == \A i \in 1..(Len(obs.statuses) - 1) : obs.statuses[i] = "processing"

\* C3: after n responses processing and one response completed(X),
\* waitForCompletion has returned X, exactly n+1 status checks were made, each
\* after the answer to the one before, and none after the completed one.
C3_PollUntilCompleted ==
    /\ ( /\ revision = "polling" /\ obs.statuses # <<>> /\ ProcessingBeforeLast
         /\ LastStatus = "completed" )
       => /\ cur.pc \in {"pollReturned", "none"}
          /\ cur.pc = "pollReturned" => cur.ret = obs.completedData
          /\ cur.pc = "none" => /\ obs.phase = "ended"
                                /\ extractedData = JValue(obs.completedData)
          /\ StatusChecks = Len(obs.statuses)
    /\ ( /\ revision = "polling" /\ obs.statuses # <<>> /\ ProcessingBeforeLast
         /\ LastStatus = "processing" /\ obs.pollEnd \in {"", "ok"} )
       => /\ StatusChecks \in {Len(obs.statuses), Len(obs.statuses) + 1}
          /\ StatusChecks = Len(obs.statuses) <=> cur.pc = "pollWait"

\* C3 witness: processing, processing, completed(X) ended with X as the result
\* after exactly 3 status checks.
C3_Witness ==
    /\ obs.statuses = <<"processing", "processing", "completed">>
    /\ obs.completedData = "X"
    /\ obs.phase = "ended"
    /\ extractedData = JValue("X")
    /\ StatusChecks = 3

\* C4: after a submit response with success = true, status processing and a
\* job id I, polling has started, every status check carries
\* { action: status_check, extract_id: I }, a non-terminal answer is followed
\* by the wait for the next check, and polling that ended on an answer ended
\* on a terminal status.
C4_PollsSameIdUntilTerminal ==
    ( /\ revision = "polling" /\ obs.first = "ok"
      /\ obs.initial.success /\ obs.initial.status = "processing"
      /\ TruthyId(obs.initial.extract_id) )
    => /\ Len(obs.reqs) >= 2
       /\ \A i \in 2..Len(obs.reqs) : obs.reqs[i] = ExpectedStatusCheck(obs.initial.extract_id)
       /\ obs.pollEnd = "" => cur.pc = "pollFetch"
       /\ (obs.pollEnd = "ok" /\ LastStatus \notin TerminalStatuses) => cur.pc = "pollWait"
       /\ (obs.pollEnd = "ok" /\ cur.pc \in {"pollReturned", "pollThrew", "none"})
          => LastStatus \in TerminalStatuses

\* C4 witness: two status checks on job-1, the second answered completed.
C4_Witness ==
    /\ revision = "polling" /\ obs.first = "ok"
    /\ obs.initial.success /\ obs.initial.status = "processing"
    /\ obs.initial.extract_id = "job-1"
    /\ obs.statuses = <<"queued", "completed">>
    /\ Len(obs.reqs) = 3
    /\ obs.reqs[3].extract_id = "job-1"

\* The message waitForCompletion throws for a failed / a cancelled job.
JobError(status) ==
    IF status = "failed" THEN "Extraction job failed" ELSE "Extraction job was cancelled"

\* C5: a status-check answer failed (cancelled) makes waitForCompletion throw
\* the job-failed (job-cancelled) error; no further status check is made, no
\* result is stored, and a non-empty error message is shown.
C5_FailedOrCancelledEndsAttempt ==
    ( /\ revision = "polling" /\ obs.statuses # <<>>
      /\ LastStatus \in {"failed", "cancelled"} )
    => /\ cur.pc \in {"pollThrew", "none"}
       /\ cur.pc = "pollThrew" => cur.thrown = JobError(LastStatus)
       /\ StatusChecks = Len(obs.statuses)
       /\ extractedData = JNull
       /\ cur.pc = "none" => /\ obs.phase = "ended"
                             /\ error # ""
                             /\ error = ErrorText(JobError(LastStatus))
                             /\ ~isLoading

\* C5 witness: a cancelled job after one processing answer; the error is
\* shown and nothing is stored.
C5_Witness ==
    /\ obs.statuses = <<"processing", "cancelled">>
    /\ obs.phase = "ended"
    /\ error = "Failed to extract data: Extraction job was cancelled"
    /\ extractedData = JNull
    /\ StatusChecks = 2

\* C6: a submit response with success = false, whatever else it carries, ends
\* the attempt in failure: no status check, no result stored, and a non-empty
\* error message shown.
C6_UnsuccessfulSubmitFails ==
    (obs.first = "ok" /\ ~obs.initial.success)
    => /\ obs.phase = "ended"
       /\ StatusChecks = 0
       /\ extractedData = JNull
       /\ error # ""

\* C7: a status check that ends in a transport failure (non-2xx or network
\* failure) makes waitForCompletion throw at once: no further status check,
\* no result, and the attempt ends with the error message shown.
C7_PollTransportFailureEndsAttempt ==
    (revision = "polling" /\ obs.pollEnd \in {"http", "network"})
    => /\ cur.pc \in {"pollThrew", "none"}
       /\ cur.pc = "pollThrew" => cur.thrown = TransportMessage(obs.pollEnd)
       /\ StatusChecks = Len(obs.statuses) + 1
       /\ extractedData = JNull
       /\ cur.pc = "none" => /\ obs.phase = "ended"
                             /\ error # ""
                             /\ error = ErrorText(TransportMessage(obs.pollEnd))
                             /\ ~isLoading

\* C7 witness: the second status check got a non-2xx answer; the attempt
\* ended with the HTTP error shown after exactly 2 status checks.
C7_Witness ==
    /\ obs.statuses = <<"processing">>
    /\ obs.pollEnd = "http"
    /\ obs.phase = "ended"
    /\ error = "Failed to extract data: HTTP error! status: 500"
    /\ StatusChecks = 2

\* C8: an attempt that passed validation has sent exactly one submit request,
\* { urls: [url], prompt } with its own url and prompt, as its first request;
\* a status check is sent only once the submit was answered, and a submit
\* that failed in transport is not sent again.
C8_OneSubmitFirst ==
    obs.phase # "none"
    => /\ Len(obs.reqs) >= 1
       /\ obs.reqs[1] = ExpectedSubmit(obs.url, obs.prompt)
       /\ \A i \in 2..Len(obs.reqs) :
              obs.reqs[i].action = "status_check" /\ obs.reqs[i].urls = <<>>
       /\ Len(obs.reqs) >= 2 => obs.first = "ok"
       /\ obs.first = "" <=> cur.pc = "submitFetch"
       /\ obs.first \in {"http", "network", "json"}
          => /\ Len(obs.reqs) = 1
             /\ obs.phase = "ended"
             /\ cur.pc = "none"
             /\ error # ""

\* C8 witness: a submit that failed in transport; it is the only request of
\* the attempt, carrying the attempt's url and prompt.
C8_Witness ==
    /\ obs.first = "network"
    /\ obs.phase = "ended"
    /\ Len(obs.reqs) = 1
    /\ obs.reqs[1].urls = <<[scheme |-> "https", rest |-> "a.example"]>>
    /\ obs.reqs[1].prompt = "Get article titles and authors"
    /\ error = "Failed to extract data: Failed to fetch"

\* The submit response takes the fallback branch of the claim C9.
FallbackCase ==
    /\ revision = "polling" /\ obs.first = "ok"
    /\ obs.initial.success /\ obs.initial.status # "completed"
    /\ ~TruthyId(obs.initial.extract_id)

\* C9 as stated: in the fallback the whole submit response is stored as the
\* result, and no status check is made.
C9_FallbackStoresWholeResponse ==
    FallbackCase
    => /\ obs.phase = "ended"
       /\ extractedData = JObject(obs.initial)
       /\ StatusChecks = 0

\* C9 amended: in the fallback the data of the submit response is stored as
\* the result when it is truthy, the whole response otherwise, and no status
\* check is made.
C9_FallbackStoresDataOrResponse ==
    FallbackCase
    => /\ obs.phase = "ended"
       /\ extractedData = IF obs.initial.data \notin Falsy
                          THEN JValue(obs.initial.data)
                          ELSE JObject(obs.initial)
       /\ Truthy(extractedData)
       /\ error = ""
       /\ StatusChecks = 0

\* C9 witness: a processing response without data and without extract_id is
\* stored whole.
C9_Witness ==
    /\ FallbackCase
    /\ obs.initial.status = "processing"
    /\ obs.initial.data = "undefined"
    /\ obs.initial.extract_id = "undefined"
    /\ extractedData = JObject(obs.initial)
    /\ Len(obs.reqs) = 1

\* The results card is rendered: extractedData && !isLoading.
Rendered == Truthy(extractedData) /\ ~isLoading

\* C10: nothing of an earlier attempt is shown once a new attempt runs, a
\* result is rendered only for an attempt that ended without error, and what
\* is rendered is never the payload of a processing response.
C10_OnlyTerminalResultRendered ==
    revision = "polling"
    => /\ obs.phase = "running" => (extractedData = JNull /\ error = "")
       /\ Rendered => (obs.phase = "ended" /\ error = "")
       /\ Rendered => ~( /\ obs.first = "ok"
                         /\ obs.initial.status = "processing"
                         /\ obs.statuses = <<>> )

\* The results card: {extractedData && !isLoading && <pre>{JSON.stringify(
\* extractedData, null, 2)}</pre>}; NoText when the card is not rendered.
ResultsDisplay == IF Rendered THEN JsonText(extractedData) ELSE NoText

\* The JSON value a rendered text stands for (nothing rendered: undefined).
ParseJson(text) ==
    IF text.k = "nothing" THEN JValue("undefined")
    ELSE IF text.t = "{...}" THEN JObject(text.r)
    ELSE CASE text.t = "null" -> JValue("null")
           [] text.t = "false" -> JValue("false")
           [] text.t = "0" -> JValue("0")
           [] text.t = "\"\"" -> JValue("emptystring")
           [] text.t = "\"X\"" -> JValue("X")

\* The attempt ended successfully on a completed response: the submit response
\* itself, or the last status-check response.
EndedOnCompleted ==
    /\ revision = "polling" /\ obs.phase = "ended" /\ obs.first = "ok" /\ error = ""
    /\ \/ obs.statuses = <<>> /\ obs.initial.success /\ obs.initial.status = "completed"
       \/ obs.statuses # <<>> /\ LastStatus = "completed"

\* The data of that completed response.
TerminalData == IF obs.statuses = <<>> THEN obs.initial.data ELSE obs.completedData

\* C11: after an attempt that ended successfully, what the results display
\* renders is structurally equal to the data of the completed response,
\* whatever JSON value that is.
C11_RenderedEqualsTerminalData ==
    EndedOnCompleted => ParseJson(ResultsDisplay) = JValue(TerminalData)

\* Requests awaiting their response, over all invocations.
Outstanding == {s \in Slots : procs[s].pc \in {"submitFetch", "pollFetch"}}

\* Invocations of handleExtract that have not reached their end.
InFlight == {s \in Slots : procs[s].pc # "none"}

\* A step in which the recorded invocation issues a status check.
IssuesStatusCheck == call' = call /\ Len(obs'.reqs) > Len(obs.reqs)

\* C12: one attempt is one sequential loop.  At most one invocation is in
\* flight and at most one request is outstanding; a status check is issued
\* only by the invocation that just received the submit response, or whose
\* 2-second wait after the answer to its previous check has elapsed, with every
\* earlier check answered; and no submit is handled while isLoading is true.
C12_SequentialPolling ==
    /\ [](Cardinality(InFlight) <= 1 /\ Cardinality(Outstanding) <= 1)
    /\ [][ IssuesStatusCheck =>
             /\ Outstanding' = {"cur"} /\ cur'.pc = "pollFetch"
             /\ Len(obs.statuses) = StatusChecks /\ StatusChecks' = StatusChecks + 1
             /\ \/ cur.pc = "submitFetch" /\ StatusChecks = 0
                \/ cur.pc = "pollWait" /\ StatusChecks > 0 /\ obs.pollEnd = "ok" ]_vars
    /\ [][ isLoading => call' = call ]_vars

C12_Witness ==
    /\ isLoading /\ cur.pc = "pollFetch" /\ StatusChecks = 2
    /\ Len(obs.statuses) = 1 /\ procs["old"].pc = "none"

(***************************************************************************)
(* Overlapping invocations                                                 *)
(***************************************************************************)
\* handleExtract does not test isLoading: a submit event that reaches the form
\* while an attempt is loading (form.requestSubmit(), a dispatched submit
\* event) starts a second invocation next to the first.  SpecRace lets the
\* handler run on any submit event, for a few response bodies.
RaceUrls == {u \in Urls : u.scheme = "https"}

RaceOutcomes == {"ok", "network"}

RaceResponses ==
    {resp \in Responses : /\ resp.success /\ resp.data = "X"
                          /\ resp.status \in {"processing", "completed", "failed"}}

InitRace == Init /\ revision = "polling"

NextRace ==
    \/ \E u \in RaceUrls, p \in Prompts : handleExtract(u, p)
    \/ \E s \in Slots, o \in RaceOutcomes, resp \in RaceResponses : SubmitResponse(s, o, resp)
    \/ \E s \in Slots, o \in RaceOutcomes, resp \in RaceResponses \cap PollResponses :
          PollResponse(s, o, resp)
    \/ \E s \in Slots : TimerFires(s)
    \/ \E s \in Slots : handleExtractResume(s)

SpecRace == InitRace /\ [][NextRace]_vars

\* The polling loop of the superseded invocation has settled and its
\* handleExtract runs to its end, while the newer invocation is in flight.
OldLoopEnds ==
    /\ call' = call /\ cur.pc # "none" /\ procs'["cur"] = procs["cur"]
    /\ procs["old"].pc \in {"pollReturned", "pollThrew"} /\ procs'["old"].pc = "none"

C14_NoCheckAfterTerminal ==
    revision = "polling" /\ obs.first = "ok" =>
        /\ obs.initial.status \in TerminalStatuses => StatusChecks = 0
        /\ \A i \in 1..Len(obs.statuses) :
              obs.statuses[i] \in TerminalStatuses => StatusChecks = i

\* Every answer to a status check so far was a 2xx body with a non-terminal
\* status: processing, a value the interface does not list, or no status.
OnlyNonTerminalAnswers ==
    /\ revision = "polling" /\ StatusChecks > 0 /\ obs.pollEnd \in {"", "ok"}
    /\ \A i \in 1..Len(obs.statuses) : obs.statuses[i] \notin TerminalStatuses

\* C15: a status-check response whose status is not terminal is followed by one
\* 2-second wait and then one more status check for the same id.  While only
\* such responses arrive the loop does not end and isLoading stays true; the
\* loop itself has no maximum (the timer can fire after any number of checks
\* below the bound of the model).
C15_NonTerminalPollsAgain ==
    /\ [](OnlyNonTerminalAnswers =>
            /\ isLoading /\ obs.phase = "running" /\ error = "" /\ extractedData = JNull
            /\ cur.pc \in {"pollFetch", "pollWait"}
            /\ cur.pc = "pollWait" <=> Len(obs.statuses) = StatusChecks
            /\ cur.pc = "pollWait" /\ cur.polls < MaxPolls => ENABLED TimerFires("cur"))
    /\ [][ OnlyNonTerminalAnswers /\ cur.pc = "pollWait" /\ procs' # procs =>
             /\ cur'.pc = "pollFetch" /\ isLoading'
             /\ StatusChecks' = StatusChecks + 1
             /\ obs'.reqs[Len(obs'.reqs)] = ExpectedStatusCheck(cur.extractId) ]_vars

C15_Witness ==
    /\ OnlyNonTerminalAnswers /\ obs.statuses = <<"queued", "undefined">>
    /\ cur.pc = "pollFetch" /\ StatusChecks = 3 /\ isLoading

\* A status check of the attempt has been answered with a terminal status or
\* has failed in transport: waitForCompletion has returned or thrown.
PollSettled == revision = "polling" /\ cur.pc \in {"pollReturned", "pollThrew"}

\* The attempt has ended: setExtractedData or setError has been called with
\* its outcome and the finally block has run.
AttemptEnded ==
    /\ cur.pc = "none" /\ obs.phase = "ended" /\ ~isLoading /\ jobStatus = ""
    /\ \/ obs.stored # NoValue /\ extractedData = obs.stored /\ error = ""
       \/ obs.err # "" /\ error = obs.err /\ extractedData = JNull

\* C16: when the server answers a status check with a terminal status or the
\* check fails in transport, the attempt eventually ends with isLoading false
\* and its result or its error set.
C16_SettledPollEndsAttempt == PollSettled ~> AttemptEnded

C16_Witness ==
    /\ revision = "polling" /\ AttemptEnded /\ StatusChecks = 2
    /\ obs.statuses = <<"queued">> /\ obs.pollEnd = "http" /\ error # ""

\* C17: isLoading is true exactly while an attempt is in flight, from the
\* submit that passed validation through the submit request and every status
\* check and wait; when the attempt has ended, by whatever path, isLoading is
\* false and jobStatus is the empty string.
C17_LoadingWhileInFlight ==
    /\ isLoading <=> InFlight # {}
    /\ isLoading <=> obs.phase = "running"
    /\ isLoading <=> cur.pc \in {"submitFetch", "pollFetch", "pollWait", "pollReturned", "pollThrew"}
    /\ ~isLoading => jobStatus = ""
    /\ jobStatus # "" => revision = "polling" /\ StatusChecks > 0

C17_Witness ==
    /\ obs.phase = "ended" /\ ~isLoading /\ jobStatus = "" /\ InFlight = {}
    /\ obs.statuses = <<"processing", "cancelled">>

\* C18: the displayed error and the displayed result exclude each other: in no
\* state is error non-empty while extractedData is not null.  An attempt in
\* flight shows neither.
C18_ErrorExcludesResult ==
    /\ ~(error # "" /\ extractedData # JNull)
    /\ isLoading => error = "" /\ extractedData = JNull

\* A new attempt is in flight after one that ended with a result.
C18_Witness ==
    /\ cur.pc = "submitFetch" /\ toast = "Extraction Complete"
    /\ error = "" /\ extractedData = JNull

\* A submit event that validation rejects: an empty url, an empty prompt, or a
\* url that does not parse.
RejectedSubmit ==
    /\ call'.tick # call.tick
    /\ EmptyString(call'.url) \/ call'.prompt = "" \/ ~UrlParses(call'.url)

\* C19: a submit rejected by validation leaves isLoading, error, extractedData
\* and jobStatus as they were, so what the previous attempt left on display, its
\* result or its error, stays displayed.
C19_RejectedSubmitKeepsDisplay ==
    [][ RejectedSubmit =>
          /\ isLoading' = isLoading /\ error' = error
          /\ extractedData' = extractedData /\ jobStatus' = jobStatus
          /\ ResultsDisplay' = ResultsDisplay ]_vars

\* A submit without a prompt was rejected while the result of the previous
\* attempt is on display.
C19_Witness ==
    /\ toast = "Missing Information" /\ call.prompt = "" /\ ~EmptyString(call.url)
    /\ obs.phase = "ended" /\ ResultsDisplay # NoText /\ error = ""

====
